---- MODULE Spec2Model ----
(***************************************************************************)
(* Model of ScreenTimeRewardsProject/generate_icons.py: resize_image, a    *)
(* wrapper around the external `sips` tool, and generate_icons, the linear *)
(* batch that normalizes the master icon, resizes it into the 18 fixed     *)
(* configurations and writes Contents.json.                                *)
(*                                                                         *)
(* The file system is a function from paths to file records; the manifest  *)
(* file is the sequence of tokens json.dump emits.  The external tool and  *)
(* the user (process interruption, re-running the script) are the          *)
(* environment: their choices are nondeterministic.                        *)
(***************************************************************************)
EXTENDS Integers, Sequences, FiniteSets, TLC

\* ---------------------------------------------------------------- bounds
\* number of times the script is run in one behaviour
MaxRuns == 2
\* number of environment faults (tool failures, interruptions) in a behaviour
MaxFaults == 1

\* ------------------------------------------------------------- constants
NormalizedSize == 1024
InfoVersion == 1

base_dir == "/Users/ameen/Documents/ScreenTime-BMAD/ScreenTimeRewardsProject/ScreenTimeRewards/Assets.xcassets/AppIcon.appiconset"

\* os.path.join(base_dir, name)
PathJoin(dir, name) == dir \o "/" \o name

master_icon == PathJoin(base_dir, "AppIcon.png")

manifest_path == PathJoin(base_dir, "Contents.json")

\* A configuration (filename_suffix, size_pt, scale, idiom).  size_pt is
\* an integer or 83.5; it is kept exactly as the number of half points
\* size_pt_x2 = 2 * size_pt.
Cfg(suffix, size_pt_x2, scale, idiom) ==
    [suffix |-> suffix, size_pt_x2 |-> size_pt_x2, scale |-> scale, idiom |-> idiom]

configs ==
    << Cfg("20x20@2x", 40, 2, "iphone"),
       Cfg("20x20@3x", 40, 3, "iphone"),
       Cfg("29x29@2x", 58, 2, "iphone"),
       Cfg("29x29@3x", 58, 3, "iphone"),
       Cfg("40x40@2x", 80, 2, "iphone"),
       Cfg("40x40@3x", 80, 3, "iphone"),
       Cfg("60x60@2x", 120, 2, "iphone"),
       Cfg("60x60@3x", 120, 3, "iphone"),
       Cfg("20x20~ipad", 40, 1, "ipad"),
       Cfg("20x20@2x~ipad", 40, 2, "ipad"),
       Cfg("29x29~ipad", 58, 1, "ipad"),
       Cfg("29x29@2x~ipad", 58, 2, "ipad"),
       Cfg("40x40~ipad", 80, 1, "ipad"),
       Cfg("40x40@2x~ipad", 80, 2, "ipad"),
       Cfg("76x76~ipad", 152, 1, "ipad"),
       Cfg("76x76@2x~ipad", 152, 2, "ipad"),
       Cfg("83.5x83.5@2x~ipad", 167, 2, "ipad"),
       Cfg("1024x1024", 2048, 1, "ios-marketing") >>

\* ------------------------------------------------------ pure computations
\* filename = f"Icon-{suffix}.png"
Filename_nosuffix(suffix) == "Icon-" \o ".png"

Filename(suffix) == "Icon-" \o suffix \o ".png"

\* output_path = os.path.join(base_dir, filename)
OutputPath(suffix) == PathJoin(base_dir, Filename(suffix))

\* px = int(size_pt * scale): the product, truncated towards zero
\* (all values are positive, so \div truncates)
Px_intfirst(size_pt_x2, scale) == (size_pt_x2 \div 2) * scale

Px(size_pt_x2, scale) == (size_pt_x2 * scale) \div 2

\* "size": f"{size_pt}x{size_pt}" if size_pt != 83.5 else "83.5x83.5"
SizeStr(size_pt_x2) ==
    IF size_pt_x2 # 167
    THEN ToString(size_pt_x2 \div 2) \o "x" \o ToString(size_pt_x2 \div 2)
    ELSE "83.5x83.5"

\* "scale": f"{scale}x"
ScaleStr(scale) == ToString(scale) \o "x"

\* the manifest entry of a configuration
Entry(cfg) ==
    [size |-> SizeStr(cfg.size_pt_x2),
     idiom |-> cfg.idiom,
     filename |-> Filename(cfg.suffix),
     scale |-> ScaleStr(cfg.scale)]

\* if resize_image(...): json_images.append(entry)
NextImages_always(images, cfg, success) == Append(images, Entry(cfg))

NextImages(images, cfg, success) ==
    IF success THEN Append(images, Entry(cfg)) ELSE images

\* json.dump(contents, f, indent=2): the text of one entry of "images",
\* at nesting depth 2, keys in insertion order
DumpEntry(e) ==
    "    {\n" \o
    "      \"size\": \"" \o e.size \o "\",\n" \o
    "      \"idiom\": \"" \o e.idiom \o "\",\n" \o
    "      \"filename\": \"" \o e.filename \o "\",\n" \o
    "      \"scale\": \"" \o e.scale \o "\"\n" \o
    "    }"

\* the entries in list order, separated by ",\n"
RECURSIVE DumpEntries(_)
DumpEntries(images) ==
    IF Len(images) = 1 THEN DumpEntry(Head(images))
    ELSE DumpEntry(Head(images)) \o ",\n" \o DumpEntries(Tail(images))

\* the text json.dump writes for
\* contents = {"images": json_images, "info": {"version": 1, "author": "xcode"}}
JsonDump(images) ==
    "{\n" \o
    (IF images = << >> THEN "  \"images\": [],\n"
     ELSE "  \"images\": [\n" \o DumpEntries(images) \o "\n  ],\n") \o
    "  \"info\": {\n" \o
    "    \"version\": " \o ToString(InfoVersion) \o ",\n" \o
    "    \"author\": \"xcode\"\n" \o
    "  }\n" \o
    "}"

\* Contents.json: absent, or a file with a text
NoFile == [exists |-> FALSE, text |-> ""]

\* open(path, "w") followed by the dump: the old content is replaced
ManifestWrite_append(old, content) == [exists |-> TRUE, text |-> old.text \o content]

ManifestWrite(old, content) == [exists |-> TRUE, text |-> content]

\* ------------------------------------------------------------ file system
Absent == [kind |-> "absent", w |-> 0, h |-> 0]

\* the master image as the user supplied it (dimensions unknown)
Original == [kind |-> "orig", w |-> 0, h |-> 0]

Image(w, h) == [kind |-> "image", w |-> w, h |-> h]

Partial == [kind |-> "partial", w |-> 0, h |-> 0]

Get(files, path) == IF path \in DOMAIN files THEN files[path] ELSE Absent

Put(files, path, file) ==
    [p \in DOMAIN files \cup {path} |-> IF p = path THEN file ELSE files[p]]

\* os.path.exists(master_icon)
Exists_always(files, path) == TRUE

Exists(files, path) == Get(files, path).kind # "absent"

\* ------------------------------------------------------------ resize_image
\* What the external tool does with one invocation:
\*   "ok"           ran, exit status 0, wrote the scaled image
\*   "fail"         ran, non-zero exit status, wrote nothing
\*   "fail_partial" ran, non-zero exit status after writing partial output
\*   "not_started"  could not be started (subprocess.run raises OSError)
ToolOutcomes == {"ok", "fail", "fail_partial", "not_started"}

ToolEffect(files, output_path, width, height, tool) ==
    CASE tool = "ok" -> Put(files, output_path, Image(width, height))
      [] tool = "fail_partial" -> Put(files, output_path, Partial)
      [] OTHER -> files

\* try: subprocess.run(..., check=True); return True
\* except subprocess.CalledProcessError: print(...); return False
\* Any other exception (OSError when the tool cannot be started) is not
\* caught and propagates: "raise".
ReturnValue(tool) ==
    CASE tool = "ok" -> "True"
      [] tool \in {"fail", "fail_partial"} -> "False"
      [] OTHER -> "raise"

\* the except branch only prints: it leaves the output path as the tool left it
ExceptHandlerFs_cleanup(files, output_path) == Put(files, output_path, Absent)

ExceptHandlerFs(files, output_path) == files

resize_image(files, input_path, output_path, width, height, tool) ==
    [ret |-> ReturnValue(tool),
     files |-> IF ReturnValue(tool) = "False"
               THEN ExceptHandlerFs(ToolEffect(files, output_path, width, height, tool), output_path)
               ELSE ToolEffect(files, output_path, width, height, tool)]

\* the record kept of one call of resize_image
Call(input_path, output_path, width, height, tool) ==
    [input |-> input_path, output |-> output_path, width |-> width,
     height |-> height, tool |-> tool, ret |-> ReturnValue(tool)]

\* resize_image(master_icon, master_icon, 1024, 1024)
NormalizeArgs ==
    [input |-> master_icon, output |-> master_icon,
     width |-> NormalizedSize, height |-> NormalizedSize]

\* resize_image(master_icon, output_path, px, px)
LoopArgs_swapped(cfg) ==
    [input |-> OutputPath(cfg.suffix), output |-> master_icon,
     width |-> Px(cfg.size_pt_x2, cfg.scale), height |-> Px(cfg.size_pt_x2, cfg.scale)]

LoopArgs(cfg) ==
    [input |-> master_icon, output |-> OutputPath(cfg.suffix),
     width |-> Px(cfg.size_pt_x2, cfg.scale), height |-> Px(cfg.size_pt_x2, cfg.scale)]

\* for ... in configs: the loop is over once every configuration was taken
LoopDone_early(i) == i > Len(configs) - 1

LoopDone(i) == i > Len(configs)

\* ------------------------------------------------------------------ state
VARIABLES
    pc,            \* position of the script: "idle", "normalize", "loop",
                   \*   "done" (returned), "raised" (exception), "killed"
    run,           \* number of runs started
    idx,           \* position of the for loop in configs (1-based)
    json_images,   \* the local list json_images
    fs,            \* image files: path -> file record
    manifest,      \* the file Contents.json
    calls,         \* resize_image calls of the current run, in order
    wrote,         \* number of manifest writes of the current run
    faults,        \* environment faults so far
    start,         \* fs and manifest as they were when the run started
    prev           \* what the previous run did

vars == << pc, run, idx, json_images, fs, manifest, calls, wrote, faults, start, prev >>

Terminal == {"idle", "done", "raised", "killed"}

\* the tool outcomes the environment may still choose
Allowed == IF faults < MaxFaults THEN ToolOutcomes ELSE {"ok"}

Fault(tool) == IF tool = "ok" THEN 0 ELSE 1

\* the return values of the derivative calls of a run, in order
Rets(cs) == [k \in 1..Len(cs) |-> cs[k].ret]

NoRun == [pc |-> "idle", rets |-> << >>, wrote |-> 0, content |-> ""]

\* The directory before the first run: the master image is there or not,
\* and the directory is otherwise empty or holds what an earlier run that
\* produced only the first configuration left behind.
StaleFs == [p \in {OutputPath(configs[1].suffix)} |-> Image(40, 40)]

StaleManifest == ManifestWrite(NoFile, JsonDump(<< Entry(configs[1]) >>))

Init ==
    /\ pc = "idle"
    /\ run = 0
    /\ idx = 1
    /\ json_images = << >>
    /\ \E m \in {Original, Absent} :
        \/ fs = [p \in {master_icon} |-> m] /\ manifest = NoFile
        \/ fs = Put(StaleFs, master_icon, m) /\ manifest = StaleManifest
    /\ calls = << >>
    /\ wrote = 0
    /\ faults = 0
    /\ start = [fs |-> fs, manifest |-> manifest]
    /\ prev = NoRun

\* generate_icons() is entered: the master check of lines 17-19
Start ==
    /\ pc \in Terminal
    /\ run < MaxRuns
    /\ run' = run + 1
    /\ prev' = IF run = 0 THEN NoRun
               ELSE [pc |-> pc, rets |-> Rets(calls), wrote |-> wrote,
                     content |-> IF wrote > 0 THEN manifest.text ELSE ""]
    /\ start' = [fs |-> fs, manifest |-> manifest]
    /\ calls' = << >>
    /\ wrote' = 0
    /\ json_images' = << >>
    /\ idx' = 1
    /\ pc' = IF Exists(fs, master_icon) THEN "normalize" ELSE "done"
    /\ UNCHANGED << fs, manifest, faults >>

\* line 22: the in-place normalization; its return value is ignored
Normalize ==
    /\ pc = "normalize"
    /\ \E tool \in Allowed :
        LET a == NormalizeArgs
            r == resize_image(fs, a.input, a.output, a.width, a.height, tool)
        IN /\ fs' = r.files
           /\ calls' = Append(calls, Call(a.input, a.output, a.width, a.height, tool))
           /\ faults' = faults + Fault(tool)
           /\ pc' = IF r.ret = "raise" THEN "raised" ELSE "loop"
    /\ UNCHANGED << run, idx, json_images, manifest, wrote, start, prev >>

\* lines 55-69: one iteration of the loop over configs
LoopStep ==
    /\ pc = "loop"
    /\ ~LoopDone(idx)
    /\ \E tool \in Allowed :
        LET cfg == configs[idx]
            a == LoopArgs(cfg)
            r == resize_image(fs, a.input, a.output, a.width, a.height, tool)
        IN /\ fs' = r.files
           /\ calls' = Append(calls, Call(a.input, a.output, a.width, a.height, tool))
           /\ faults' = faults + Fault(tool)
           /\ IF r.ret = "raise"
              THEN /\ pc' = "raised"
                   /\ UNCHANGED << idx, json_images >>
              ELSE /\ pc' = "loop"
                   /\ idx' = idx + 1
                   /\ json_images' = NextImages(json_images, cfg, r.ret = "True")
    /\ UNCHANGED << run, manifest, wrote, start, prev >>

\* lines 71-82: the loop is over; build contents and write Contents.json
WriteManifest ==
    /\ pc = "loop"
    /\ LoopDone(idx)
    /\ manifest' = ManifestWrite(manifest, JsonDump(json_images))
    /\ wrote' = wrote + 1
    /\ pc' = "done"
    /\ UNCHANGED << run, idx, json_images, fs, calls, faults, start, prev >>

\* the process is interrupted from outside between two steps; nothing
\* in the script handles it
Interrupt ==
    /\ pc \in {"normalize", "loop"}
    /\ faults < MaxFaults
    /\ faults' = faults + 1
    /\ pc' = "killed"
    /\ UNCHANGED << run, idx, json_images, fs, manifest, calls, wrote, start, prev >>

Next == Start \/ Normalize \/ LoopStep \/ WriteManifest \/ Interrupt

Spec == Init /\ [][Next]_vars

TypeOK ==
    /\ pc \in Terminal \cup {"normalize", "loop"}
    /\ run \in 0..MaxRuns
    /\ idx \in 1..(Len(configs) + 1)
    /\ faults \in 0..MaxFaults
    /\ wrote \in 0..1

\* ============================================================ properties
\* the master image was there when the current run started
MasterAtStart == run >= 1 /\ Get(start.fs, master_icon).kind # "absent"

\* the configuration the k-th call of a run is made for (call 1 is the
\* normalization)
CfgOf(k) == configs[k - 1]

DerivCalls == 2..Len(calls)

\* the entries of the configurations whose call returned True, in the order
\* of configs
RECURSIVE SuccEntries(_, _)
SuccEntries(cs, k) ==
    IF k > Len(cs) THEN << >>
    ELSE (IF cs[k].ret = "True"
          THEN << [size |-> SizeStr(CfgOf(k).size_pt_x2), idiom |-> CfgOf(k).idiom,
                   filename |-> "Icon-" \o CfgOf(k).suffix \o ".png",
                   scale |-> ToString(CfgOf(k).scale) \o "x"] >>
          ELSE << >>) \o SuccEntries(cs, k + 1)

Failed(cs) == {k \in 2..Len(cs) : cs[k].ret = "False"}

\* C1: when generate_icons completes with the master present, the images of
\* the manifest are exactly the entries of the configurations whose resize
\* returned True, in configuration order, without duplicates; their number
\* is 18 minus the number of failed derivative resizes.
C1_ManifestIsSuccessSubsequence ==
    (pc = "done" /\ MasterAtStart) =>
        /\ manifest.exists
        /\ manifest.text = JsonDump(SuccEntries(calls, 2))
        /\ json_images = SuccEntries(calls, 2)
        /\ Len(json_images) = Len(configs) - Cardinality(Failed(calls))
        /\ \A a, b \in 1..Len(json_images) : a # b => json_images[a] # json_images[b]

C1_Witness ==
    /\ pc = "done" /\ MasterAtStart /\ wrote = 1
    /\ Len(json_images) = 17
    /\ Cardinality(Failed(calls)) = 1

\* C2: a run that starts without the master image makes no resize call,
\* writes neither a derivative nor the manifest, leaves the file system as
\* it was and returns normally.
C2_MissingMasterDoesNothing ==
    (run >= 1 /\ ~MasterAtStart) =>
        /\ pc = "done"
        /\ calls = << >>
        /\ wrote = 0
        /\ fs = start.fs
        /\ manifest = start.manifest
        /\ json_images = << >>

C2_Witness ==
    /\ run >= 1 /\ ~MasterAtStart /\ pc = "done" /\ ~Exists(fs, master_icon)
    /\ manifest.exists /\ \E k \in 1..Len(configs) : Exists(fs, OutputPath(configs[k].suffix))

\* C3: resize_image never raises: every tool failure, a non-zero exit as
\* well as a tool that cannot be started, gives False, and True is returned
\* only when the tool exited with status zero.
C3_ResizeNeverRaises ==
    \A k \in 1..Len(calls) :
        /\ calls[k].ret \in {"True", "False"}
        /\ (calls[k].ret = "True") <=> (calls[k].tool = "ok")

\* C4 as stated: after a completed run, a configuration whose resize
\* reported failure has no entry in the manifest and no file at its
\* destination path.
C4_FailedLeavesNoFile ==
    (pc = "done" /\ MasterAtStart) =>
        \A k \in Failed(calls) :
            /\ \A a \in 1..Len(json_images) :
                   json_images[a].filename # "Icon-" \o CfgOf(k).suffix \o ".png"
            /\ ~Exists(fs, calls[k].output)

\* C4 amended: after a completed run, a configuration whose resize reported
\* failure has no entry in the manifest, and nothing is cleaned up: its
\* destination holds the partial output when the tool wrote some, and
\* otherwise whatever was there when the run started.
C4_FailedLeavesNoEntryNoCleanup ==
    (pc = "done" /\ MasterAtStart) =>
        \A k \in Failed(calls) :
            /\ \A a \in 1..Len(json_images) :
                   json_images[a].filename # "Icon-" \o CfgOf(k).suffix \o ".png"
            /\ Get(fs, calls[k].output) =
                   IF calls[k].tool = "fail_partial" THEN Partial
                   ELSE Get(start.fs, calls[k].output)

C4_Witness ==
    /\ pc = "done" /\ MasterAtStart
    /\ \E k \in Failed(calls) : Exists(fs, calls[k].output)

\* C5: whenever the master exists, the run ends by returning, after the
\* normalization and one attempt for each of the 18 configurations in
\* order, with exactly one manifest write, whatever the resize calls do.
C5_RunsToCompletion ==
    (pc \in {"done", "raised"} /\ MasterAtStart) =>
        /\ pc = "done"
        /\ Len(calls) = Len(configs) + 1
        /\ calls[1].output = master_icon
        /\ \A k \in DerivCalls : calls[k].output = PathJoin(base_dir, "Icon-" \o CfgOf(k).suffix \o ".png")
        /\ wrote = 1

\* round(n2 / 2) as Python rounds: to the nearest integer, halves to even
Round2(n2) ==
    IF n2 % 2 = 0 THEN n2 \div 2
    ELSE IF (n2 \div 2) % 2 = 0 THEN n2 \div 2 ELSE (n2 \div 2) + 1

\* C6: for each of the 18 configurations the width and height passed to
\* resize are equal, positive and equal to round(size_pt * scale), which is
\* also its truncation; 83.5 at scale 2 gives 167 and 20 at scale 3 gives 60.
C6_PixelDimensions ==
    \A k \in DerivCalls :
        /\ calls[k].width = calls[k].height
        /\ calls[k].width = Round2(CfgOf(k).size_pt_x2 * CfgOf(k).scale)
        /\ 2 * calls[k].width = CfgOf(k).size_pt_x2 * CfgOf(k).scale
        /\ calls[k].width > 0
        /\ (CfgOf(k).size_pt_x2 = 167 /\ CfgOf(k).scale = 2) => calls[k].width = 167
        /\ (CfgOf(k).size_pt_x2 = 40 /\ CfgOf(k).scale = 3) => calls[k].width = 60

C6_Witness ==
    /\ Len(calls) = Len(configs) + 1
    /\ \E k \in DerivCalls : CfgOf(k).size_pt_x2 = 167 /\ calls[k].width = 167
    /\ \E k \in DerivCalls : CfgOf(k).size_pt_x2 = 40 /\ calls[k].width = 60

\* two successive runs both completed and wrote the manifest
TwoCompleteRuns ==
    /\ run >= 2 /\ pc = "done" /\ wrote = 1
    /\ prev.pc = "done" /\ prev.wrote = 1

\* the derivative calls of this run returned what those of the previous did
SameOutcomes ==
    /\ Len(prev.rets) = Len(calls)
    /\ \A k \in DerivCalls : calls[k].ret = prev.rets[k]

C8_MasterWrittenOnceFirst ==
    /\ \A k \in 1..Len(calls) :
        /\ (calls[k].output = master_icon) <=> (k = 1)
        /\ calls[k].input = master_icon
        /\ k = 1 => (calls[k].width = 1024 /\ calls[k].height = 1024)
        /\ k > 1 => calls[1].ret \in {"True", "False"}
    /\ pc = "loop" => (Len(calls) >= 1 /\ calls[1].ret \in {"True", "False"})
    /\ (pc = "done" /\ MasterAtStart) =>
           Cardinality({k \in 1..Len(calls) : calls[k].output = master_icon}) = 1

C8_Witness ==
    /\ pc = "done" /\ MasterAtStart /\ Len(calls) = Len(configs) + 1
    /\ Get(fs, master_icon) = Image(1024, 1024)

\* C9: the 18 destination paths are pairwise distinct and differ from the
\* master path and the manifest path, so no two writes of a run go to the
\* same path.
C9_DistinctPaths ==
    /\ \A a, b \in 1..Len(calls) : a # b => calls[a].output # calls[b].output
    /\ \A k \in DerivCalls : calls[k].output \notin {master_icon, manifest_path}
    /\ \A k \in 1..Len(calls) : calls[k].output # manifest_path
    /\ (pc = "done" /\ MasterAtStart) =>
           Cardinality({calls[k].output : k \in 1..Len(calls)} \cup {manifest_path})
               = Len(configs) + 2

C9_Witness ==
    /\ pc = "done" /\ MasterAtStart
    /\ Cardinality({calls[k].output : k \in DerivCalls}) = 18

\* the manifest is written only after all 19 calls have returned, as the
\* last operation of the run
WrittenLast ==
    wrote >= 1 =>
        /\ pc = "done"
        /\ wrote = 1
        /\ Len(calls) = Len(configs) + 1
        /\ \A k \in 1..Len(calls) : calls[k].ret \in {"True", "False"}

\* C10 as stated: the manifest is written last, and a run interrupted
\* before that write leaves no manifest file at the manifest path.
C10_InterruptedLeavesNoManifest ==
    /\ WrittenLast
    /\ pc = "killed" => ~manifest.exists

\* C10 amended: the manifest is written last, and a run interrupted before
\* that write has not written the manifest: the manifest path holds what it
\* held when the run started (nothing, or the manifest of an earlier run).
C10_InterruptedLeavesManifestUntouched ==
    /\ WrittenLast
    /\ pc \in {"normalize", "loop", "killed", "raised"} =>
           (wrote = 0 /\ manifest = start.manifest)

C10_Witness ==
    /\ pc = "killed" /\ wrote = 0
    /\ \E k \in DerivCalls : Get(fs, calls[k].output).kind = "image"
    /\ \E k \in 1..Len(configs) : ~Exists(fs, OutputPath(configs[k].suffix))

====
